---- MODULE Spec2Model ----
(***************************************************************************)
(* Lattice basis reduction (LLL and the sliding-window BKZ driver) of      *)
(* src/src/main.rs, with exact rational arithmetic.                        *)
(*                                                                         *)
(* A Rational is a pair <<numerator, denominator>> in lowest terms with a  *)
(* positive denominator, as rug keeps it.  <<0, 0>> is the value of a      *)
(* division by zero, which in the program is a panic.                      *)
(* A basis is a function from 0..n-1 to rows; a row is a sequence of       *)
(* integers.  Row indices are those of the source (0-based).               *)
(***************************************************************************)
EXTENDS Integers, Sequences, FiniteSets, TLC

\* ---- bounds of the model ----
MaxRows == 3
Dim == 3
MaxEntry == 1

\* ---- exact arithmetic (rug::Integer, rug::Rational) ----

IAbs(x) == IF x < 0 THEN -x ELSE x

Min(x, y) == IF x < y THEN x ELSE y

Max(x, y) == IF x > y THEN x ELSE y

SatSub(x, y) == IF x >= y THEN x - y ELSE 0

RECURSIVE GCD(_, _)
GCD(x, y) == IF y = 0 THEN x ELSE GCD(y, x % y)

NaR == <<0, 0>>

Canon(n, d) ==
    IF d = 0 THEN NaR
    ELSE LET g == GCD(IAbs(n), IAbs(d))
             s == IF d < 0 THEN -1 ELSE 1
         IN  <<(s * n) \div g, (s * d) \div g>>

RZero == <<0, 1>>

RFromInt(x) == <<x, 1>>

RFromPair(n, d) == Canon(n, d)

\* the denominators are brought to their least common multiple, and a product is
\* cancelled crosswise before it is formed
CoDen(p, q) == IF p[2] = 0 \/ q[2] = 0 THEN 1 ELSE GCD(p[2], q[2])

RAdd(p, q) ==
    LET g == CoDen(p, q)
    IN  Canon(p[1] * (q[2] \div g) + q[1] * (p[2] \div g), (p[2] \div g) * q[2])

RSub(p, q) ==
    LET g == CoDen(p, q)
    IN  Canon(p[1] * (q[2] \div g) - q[1] * (p[2] \div g), (p[2] \div g) * q[2])

RMul(p, q) ==
    LET g1 == Max(1, GCD(IAbs(p[1]), q[2]))
        g2 == Max(1, GCD(IAbs(q[1]), p[2]))
    IN  Canon((p[1] \div g1) * (q[1] \div g2), (p[2] \div g2) * (q[2] \div g1))

RDiv(p, q) == Canon(p[1] * q[2], p[2] * q[1])

RPow2(p) == RMul(p, p)

RAbs(p) == <<IAbs(p[1]), p[2]>>

RIsZero(p) == p[1] = 0

RGt(p, q) == p[1] * q[2] > q[1] * p[2]

RGe(p, q) == p[1] * q[2] >= q[1] * p[2]

\* mutant: round toward zero
RRoundTrunc(p) == <<(IF p[1] < 0 THEN 0 - (IAbs(p[1]) \div p[2]) ELSE p[1] \div p[2]), 1>>

\* Rational::round: to the nearest integer, a tie away from zero.
RRound(p) ==
    LET a == IAbs(p[1])
        fl == a \div p[2]
        up == IF 2 * (a - fl * p[2]) >= p[2] THEN fl + 1 ELSE fl
    IN  <<(IF p[1] < 0 THEN -up ELSE up), 1>>

Numer(p) == p[1]

RECURSIVE RSum(_)
RSum(s) == IF s = <<>> THEN RZero ELSE RAdd(Head(s), RSum(Tail(s)))

\* zip of two slices stops at the shorter one
ZipLen(v1, v2) == Min(Len(v1), Len(v2))

subtract_vec(v1, v2) == [i \in 1..ZipLen(v1, v2) |-> v1[i] - v2[i]]

scalar_mul(scalar, v) == [i \in 1..Len(v) |-> scalar * v[i]]

NRows(bb) == Cardinality(DOMAIN bb)

\* sum of squares of a rational vector
NormSq(v) == RSum([i \in 1..Len(v) |-> RPow2(v[i])])

\* ---- Gram-Schmidt ----

\* mu[i][j] of line 79
MuCoeff(num, den) == IF RIsZero(den) THEN RZero ELSE RDiv(num, den)

\* the loop over j < i for row i: the running vector b_i_rational and row i of mu
RECURSIVE GSInner(_, _, _, _, _, _)
GSInner(bb, bstar, i, j, cur, murow) ==
    IF j >= i THEN [v |-> cur, m |-> murow]
    ELSE LET bs == bstar[j]
             num == RSum([c \in 1..ZipLen(bb[i], bs) |-> RMul(RFromInt(bb[i][c]), bs[c])])
             den == NormSq(bs)
             mij == MuCoeff(num, den)
             mu_b_star == [c \in 1..Len(bs) |-> RMul(mij, bs[c])]
             nxt == [c \in 1..ZipLen(cur, mu_b_star) |-> RSub(cur[c], mu_b_star[c])]
         IN  GSInner(bb, bstar, i, j + 1, nxt, [murow EXCEPT ![j] = mij])

RECURSIVE GSOuter(_, _, _, _)
GSOuter(bb, i, bstar, mu0) ==
    IF i >= NRows(bb) THEN [b_star |-> bstar, mu |-> mu0]
    ELSE LET b_i_rational == [c \in 1..Len(bb[i]) |-> RFromInt(bb[i][c])]
             r == GSInner(bb, bstar, i, 0, b_i_rational, mu0[i])
         IN  GSOuter(bb, i + 1,
                     [x \in 0..i |-> IF x = i THEN r.v ELSE bstar[x]],
                     [mu0 EXCEPT ![i] = r.m])

compute_gram_schmidt(bb) ==
    LET n == NRows(bb)
    IN  GSOuter(bb, 0, <<>>, [x \in 0..(n - 1) |-> [y \in 0..(n - 1) |-> RZero]])

\* a division by zero happened while computing g
Panicked(g) ==
    \E x \in DOMAIN g.mu : \E y \in DOMAIN g.mu[x] : g.mu[x][y] = NaR

\* ---- program constants and the conditions of the code ----

\* delta = 0.75 (main)
Delta == RFromPair(75, 100)

\* the size-reduction threshold 1/2
Half == RFromPair(1, 2)

\* mutant: the threshold 1 instead of 1/2
NeedsReduceLoose(m) == RGt(RAbs(m), RFromInt(1))

\* |mu[k][j]| > 1/2
NeedsReduce(m) == RGt(RAbs(m), Half)

\* mutant: half of delta is used
LovaszHoldsWeak(sk, sk1, m, delta) == RGe(sk, RMul(RSub(RMul(delta, Half), RPow2(m)), sk1))

\* the Lovasz condition on S_k, S_{k-1}, mu[k][k-1]
LovaszHolds(sk, sk1, m, delta) == RGe(sk, RMul(RSub(delta, RPow2(m)), sk1))

\* mutant: k advances after a swap
KAfterSwapSkip(kk) == kk + 1

\* mutant: k does not step back after a swap
KAfterSwapStay(kk) == Max(1, kk)

\* k after a swap
KAfterSwap(kk) == Max(1, SatSub(kk, 1))

\* mutant: row j is copied over row i and not exchanged
SwapRowsCopy(bb, i, j) == [x \in DOMAIN bb |-> IF x = i THEN bb[j] ELSE bb[x]]

\* b.swap(i, j)
SwapRows(bb, i, j) ==
    [x \in DOMAIN bb |-> IF x = i THEN bb[j] ELSE IF x = j THEN bb[i] ELSE bb[x]]

\* b[k] = b[k] - q * b[j]
ReduceRow(bb, kk, j, q) ==
    [bb EXCEPT ![kk] = subtract_vec(bb[kk], scalar_mul(q, bb[j]))]

\* the first j, scanning from k-1 down to 0, whose coefficient needs reduction
ReduceSet(m, kk) == {j \in 0..(kk - 1) : NeedsReduce(m[kk][j])}

FirstReduce(m, kk) == CHOOSE j \in ReduceSet(m, kk) : \A x \in ReduceSet(m, kk) : x <= j

\* mutant: the lower limit is 1
BlockSizeBadLow(bs, n) == bs > n \/ bs < 1

\* the block size main rejects
BlockSizeBad(bs, n) == bs > n \/ bs < 2

\* b[k..k + block_size]
Window(bb, kk, bs) == [i \in 0..(bs - 1) |-> bb[kk + i]]

\* b[k + i] = block[i] for i in 0..block_size
WriteBack(bb, block, kk, bs) ==
    [x \in DOMAIN bb |-> IF x >= kk /\ x < kk + bs THEN block[x - kk] ELSE bb[x]]

MaxIters(n) == 2 * n

\* mutant: the loop ends on the iteration limit only
BkzExitCapOnly(old, cur, it, maxit) == it > maxit

\* the break condition of the pass loop
BkzExit(old, cur, it, maxit) == old = cur \/ it > maxit

\* mutant: the full-basis lll works on a copy and its result is dropped
FullResultDropped(bb, reduced) == bb

\* lll(b, delta) on the whole basis reduces bkz's b in place
FullResult(bb, reduced) == reduced

\* ---- state ----

VARIABLES
    input,       \* the basis as loaded
    algo,        \* "lll" or "bkz" (--lll, --bkz)
    block_size,  \* --block-size
    basis,       \* main's basis
    mpc,         \* main: "start", "in_lll", "in_bkz", "print", "done"
    stdout,      \* the lines printed to standard output, each the basis it encodes
    stderr,      \* the number of diagnostics printed to standard error
    exit_code,   \* -1 while running, then the exit status of the process
    bpc,         \* bkz: "idle", "loop", "sweep", "in_window", "in_full", "returned"
    iter_count,  \* bkz: iter_count
    old_basis,   \* bkz: old_basis
    win,         \* bkz: the window start k
    b,           \* lll: the basis it reduces
    k,           \* lll: k
    b_star,      \* lll: b_star
    mu,          \* lll: mu
    lpc,         \* lll: "idle", "head", "reduce", "lovasz", "returned", "panic"
    ret          \* lll: the caller, "main", "window" or "full"

vars == <<input, algo, block_size, basis, mpc, stdout, stderr, exit_code,
          bpc, iter_count, old_basis, win, b, k, b_star, mu, lpc, ret>>

mainVars == <<basis, mpc, stdout, stderr, exit_code>>

argVars == <<input, algo, block_size>>

bkzVars == <<bpc, iter_count, old_basis, win>>

lllVars == <<b, k, b_star, mu, lpc, ret>>

Rows == [1..Dim -> 0..MaxEntry]

Bases == UNION {[0..(n - 1) -> Rows] : n \in 0..MaxRows}

\* a basis of 5 rows on which the passes of bkz with block size 4 alternate between
\* two bases and never repeat one
CyclingBasis ==
    LET rows == << <<-1, 0, 1, 1, 0>>,
                   <<-1, -1, -1, -1, -1>>,
                   <<-1, 1, 1, -1, -1>>,
                   <<-1, 0, -1, 1, 0>>,
                   <<1, -1, 1, 0, -1>> >>
    IN  [i \in 0..(Len(rows) - 1) |-> rows[i + 1]]

Init ==
    /\ input \in Bases \cup {CyclingBasis}
    /\ algo \in {"lll", "bkz"}
    /\ block_size \in 0..(NRows(input) + 1)
    /\ algo = "lll" => block_size = 2
    /\ basis = input
    /\ mpc = "start"
    /\ stdout = <<>>
    /\ stderr = 0
    /\ exit_code = -1
    /\ bpc = "idle"
    /\ iter_count = 0
    /\ old_basis = <<>>
    /\ win = 0
    /\ b = <<>>
    /\ k = 0
    /\ b_star = <<>>
    /\ mu = <<>>
    /\ lpc = "idle"
    /\ ret = "main"

\* ---- lll ----

\* the state after a recomputation of the Gram-Schmidt data
SetGS(g, next) ==
    /\ b_star' = g.b_star
    /\ mu' = g.mu
    /\ lpc' = IF Panicked(g) THEN "panic" ELSE next

\* the call lll(nb, delta) by who: lines 92-97
LllCall(nb, who) ==
    /\ b' = nb
    /\ ret' = who
    /\ IF NRows(nb) = 0
       THEN lpc' = "returned" /\ UNCHANGED <<k, b_star, mu>>
       ELSE k' = 1 /\ SetGS(compute_gram_schmidt(nb), "head")

\* while k < n: enter the body
LllLoop ==
    /\ lpc = "head"
    /\ k < NRows(b)
    /\ lpc' = "reduce"
    /\ UNCHANGED <<b, k, b_star, mu, ret, mainVars, argVars, bkzVars>>

\* k = n: the loop ends and lll returns
LllReturn ==
    /\ lpc = "head"
    /\ ~(k < NRows(b))
    /\ lpc' = "returned"
    /\ UNCHANGED <<b, k, b_star, mu, ret, mainVars, argVars, bkzVars>>

\* one subtraction of the size-reduction loop, and the restart of the scan
LllSizeReduce ==
    /\ lpc = "reduce"
    /\ ReduceSet(mu, k) # {}
    /\ LET j == FirstReduce(mu, k)
           q == RRound(mu[k][j])
           q_integer == Numer(q)
           nb == ReduceRow(b, k, j, q_integer)
       IN  /\ b' = nb
           /\ SetGS(compute_gram_schmidt(nb), "reduce")
    /\ UNCHANGED <<k, ret, mainVars, argVars, bkzVars>>

\* a full scan over j without a reduction
LllReduceDone ==
    /\ lpc = "reduce"
    /\ ReduceSet(mu, k) = {}
    /\ lpc' = "lovasz"
    /\ UNCHANGED <<b, k, b_star, mu, ret, mainVars, argVars, bkzVars>>

\* the squared norm of b*_{k-1} is zero: advance
LllSkipDegenerate ==
    /\ lpc = "lovasz"
    /\ RIsZero(NormSq(b_star[k - 1]))
    /\ k' = k + 1
    /\ lpc' = "head"
    /\ UNCHANGED <<b, b_star, mu, ret, mainVars, argVars, bkzVars>>

\* the Lovasz condition holds: advance
LllAdvance ==
    /\ lpc = "lovasz"
    /\ ~RIsZero(NormSq(b_star[k - 1]))
    /\ LovaszHolds(NormSq(b_star[k]), NormSq(b_star[k - 1]), mu[k][k - 1], Delta)
    /\ k' = k + 1
    /\ lpc' = "head"
    /\ UNCHANGED <<b, b_star, mu, ret, mainVars, argVars, bkzVars>>

\* the Lovasz condition fails: swap and step back
LllSwap ==
    /\ lpc = "lovasz"
    /\ ~RIsZero(NormSq(b_star[k - 1]))
    /\ ~LovaszHolds(NormSq(b_star[k]), NormSq(b_star[k - 1]), mu[k][k - 1], Delta)
    /\ LET nb == SwapRows(b, k, k - 1)
       IN  /\ b' = nb
           /\ SetGS(compute_gram_schmidt(nb), "head")
    /\ k' = KAfterSwap(k)
    /\ UNCHANGED <<ret, mainVars, argVars, bkzVars>>

\* ---- bkz ----

\* loop: iter_count += 1; old_basis = b.clone()
BkzPassBegin ==
    /\ bpc = "loop"
    /\ iter_count' = iter_count + 1
    /\ old_basis' = basis
    /\ win' = 0
    /\ bpc' = "sweep"
    /\ UNCHANGED <<mainVars, argVars, lllVars>>

\* for k in 0..=(n - block_size): lll on a copy of the window
BkzWindowCall ==
    /\ bpc = "sweep"
    /\ win <= SatSub(NRows(basis), block_size)
    /\ LllCall(Window(basis, win, block_size), "window")
    /\ bpc' = "in_window"
    /\ UNCHANGED <<mainVars, argVars, iter_count, old_basis, win>>

\* the window's lll returned: write the block back
BkzWindowReturn ==
    /\ bpc = "in_window"
    /\ lpc = "returned"
    /\ basis' = WriteBack(basis, b, win, block_size)
    /\ win' = win + 1
    /\ bpc' = "sweep"
    /\ lpc' = "idle"
    /\ UNCHANGED <<mpc, stdout, stderr, exit_code, argVars, iter_count, old_basis,
                   b, k, b_star, mu, ret>>

\* after the sweep: lll on the whole basis
BkzFullCall ==
    /\ bpc = "sweep"
    /\ ~(win <= SatSub(NRows(basis), block_size))
    /\ LllCall(basis, "full")
    /\ bpc' = "in_full"
    /\ UNCHANGED <<mainVars, argVars, iter_count, old_basis, win>>

\* the full lll returned: leave the pass loop or repeat it
BkzFullReturn ==
    /\ bpc = "in_full"
    /\ lpc = "returned"
    /\ basis' = FullResult(basis, b)
    /\ bpc' = IF BkzExit(old_basis, FullResult(basis, b), iter_count, MaxIters(NRows(basis)))
              THEN "returned" ELSE "loop"
    /\ lpc' = "idle"
    /\ UNCHANGED <<mpc, stdout, stderr, exit_code, argVars, iter_count, old_basis, win,
                   b, k, b_star, mu, ret>>

\* ---- main ----

\* an empty basis: print [] and return
MainEmpty ==
    /\ mpc = "start"
    /\ NRows(basis) = 0
    /\ stdout' = Append(stdout, <<>>)
    /\ mpc' = "done"
    /\ exit_code' = 0
    /\ UNCHANGED <<basis, stderr, argVars, bkzVars, lllVars>>

MainCallLll ==
    /\ mpc = "start"
    /\ NRows(basis) # 0
    /\ algo = "lll"
    /\ LllCall(basis, "main")
    /\ mpc' = "in_lll"
    /\ UNCHANGED <<basis, stdout, stderr, exit_code, argVars, bkzVars>>

MainLllReturn ==
    /\ mpc = "in_lll"
    /\ lpc = "returned"
    /\ basis' = b
    /\ lpc' = "idle"
    /\ mpc' = "print"
    /\ UNCHANGED <<stdout, stderr, exit_code, argVars, bkzVars, b, k, b_star, mu, ret>>

\* the block size is out of range: a diagnostic, then return
MainBlockSizeError ==
    /\ mpc = "start"
    /\ NRows(basis) # 0
    /\ algo = "bkz"
    /\ BlockSizeBad(block_size, NRows(basis))
    /\ stderr' = stderr + 1
    /\ mpc' = "done"
    /\ exit_code' = 0
    /\ UNCHANGED <<basis, stdout, argVars, bkzVars, lllVars>>

MainCallBkz ==
    /\ mpc = "start"
    /\ NRows(basis) # 0
    /\ algo = "bkz"
    /\ ~BlockSizeBad(block_size, NRows(basis))
    /\ mpc' = "in_bkz"
    /\ bpc' = IF NRows(basis) = 0 THEN "returned" ELSE "loop"
    /\ iter_count' = 0
    /\ UNCHANGED <<basis, stdout, stderr, exit_code, argVars, old_basis, win, lllVars>>

MainBkzReturn ==
    /\ mpc = "in_bkz"
    /\ bpc = "returned"
    /\ mpc' = "print"
    /\ UNCHANGED <<basis, stdout, stderr, exit_code, argVars, bkzVars, lllVars>>

\* println of the reduced basis, and the normal end of main
MainPrint ==
    /\ mpc = "print"
    /\ stdout' = Append(stdout, basis)
    /\ mpc' = "done"
    /\ exit_code' = 0
    /\ UNCHANGED <<basis, stderr, argVars, bkzVars, lllVars>>

Next ==
    \/ LllLoop
    \/ LllReturn
    \/ LllSizeReduce
    \/ LllReduceDone
    \/ LllSkipDegenerate
    \/ LllAdvance
    \/ LllSwap
    \/ BkzPassBegin
    \/ BkzWindowCall
    \/ BkzWindowReturn
    \/ BkzFullCall
    \/ BkzFullReturn
    \/ MainEmpty
    \/ MainCallLll
    \/ MainLllReturn
    \/ MainBlockSizeError
    \/ MainCallBkz
    \/ MainBkzReturn
    \/ MainPrint

Spec == Init /\ [][Next]_vars

\* ---- properties ----

LllRunning == lpc \in {"head", "reduce", "lovasz"}

LllActive == lpc \in {"head", "reduce", "lovasz", "returned", "panic"}

\* the basis of the caller as the reduction under way has left it
CurrentBasis ==
    IF LllActive /\ ret = "window" THEN WriteBack(basis, b, win, block_size)
    ELSE IF LllActive THEN b
    ELSE basis

\* |mu[i][j]| <= 1/2 for 0 <= j < i < kk, in the Gram-Schmidt data g
SizeReducedUpTo(g, kk) ==
    \A i \in 0..(kk - 1) : \A j \in 0..(i - 1) : ~RGt(RAbs(g.mu[i][j]), Half)

\* the Lovasz inequality at every i in 1..kk-1 whose predecessor has a non-zero norm
LovaszUpTo(g, kk) ==
    \A i \in 1..(kk - 1) :
        \/ RIsZero(NormSq(g.b_star[i - 1]))
        \/ RGe(NormSq(g.b_star[i]),
               RMul(RSub(Delta, RPow2(g.mu[i][i - 1])), NormSq(g.b_star[i - 1])))

FullRank(g) == \A i \in DOMAIN g.b_star : ~RIsZero(NormSq(g.b_star[i]))

RowsOf(bb) == {bb[i] : i \in DOMAIN bb}

\* y is x with two rows exchanged
IsSwap(x, y) ==
    \E i, j \in DOMAIN x : i # j /\ y = [x EXCEPT ![i] = x[j], ![j] = x[i]]

\* y is x with an integer multiple of row j subtracted from a different row i; the
\* multiple is read off a column where row j is not zero
IsRowSubtraction(x, y) ==
    \E i, j \in DOMAIN x :
        /\ i # j
        /\ \A r \in DOMAIN x : r # i => y[r] = x[r]
        /\ Len(y[i]) = Len(x[i])
        /\ \E col \in 1..Len(x[j]) :
              /\ x[j][col] # 0
              /\ (x[i][col] - y[i][col]) % IAbs(x[j][col]) = 0
              /\ LET q == (x[i][col] - y[i][col]) \div x[j][col]
                 IN  \A c \in 1..Len(x[i]) : y[i][c] = x[i][c] - q * x[j][c]

\* C1: the current basis starts as the input and every step of lll and bkz leaves
\* it as it is, exchanges two rows, or subtracts an integer multiple of one row
\* from a different row: it is U * input for an integer U of determinant +1 or -1.
C1_LatticeEquivalence ==
    /\ CurrentBasis = input
    /\ [][\/ CurrentBasis' = CurrentBasis
          \/ DOMAIN CurrentBasis' = DOMAIN CurrentBasis /\ IsSwap(CurrentBasis, CurrentBasis')
          \/ DOMAIN CurrentBasis' = DOMAIN CurrentBasis
             /\ IsRowSubtraction(CurrentBasis, CurrentBasis')]_vars

\* a finished bkz run on a full-rank input of 3 rows, none of which is left
C1_Witness ==
    /\ mpc = "done"
    /\ algo = "bkz"
    /\ NRows(basis) = 3
    /\ stdout = <<basis>>
    /\ RowsOf(basis) \cap RowsOf(input) = {}
    /\ FullRank(compute_gram_schmidt(input))

\* C2: whenever lll returns, the Gram-Schmidt coefficients of the returned basis
\* satisfy |mu[i][j]| <= 1/2 for all 0 <= j < i < n.
C2_SizeReduced ==
    lpc = "returned" => SizeReducedUpTo(compute_gram_schmidt(b), NRows(b))

\* input row 2 is not a copy of an earlier row and has travelled to index 0: a swap
\* at k = 2 sent k back to 1 after index 1 had been passed; some b*_j of the
\* returned basis has squared norm 0, so that its mu[i][j] is taken as 0
C2_Witness ==
    /\ lpc = "returned"
    /\ ret = "main"
    /\ NRows(b) = 3
    /\ b[0] = input[2]
    /\ input[2] \notin {input[0], input[1]}
    /\ \E i \in 1..2 : \E j \in 0..(i - 1) : RIsZero(NormSq(compute_gram_schmidt(b).b_star[j]))

\* C3: whenever lll returns, the Lovasz inequality holds at every k in 1..n-1 whose
\* b*_{k-1} has a non-zero squared norm.
C3_Lovasz ==
    lpc = "returned" => LovaszUpTo(compute_gram_schmidt(b), NRows(b))

C3_Witness ==
    /\ lpc = "returned"
    /\ ret = "main"
    /\ NRows(b) = 3
    /\ FullRank(compute_gram_schmidt(b))
    /\ RowsOf(b) \cap RowsOf(input) = {}

\* lll runs on a basis that an earlier lll call with the same delta returned: with
\* block_size = n the only window is the whole basis, so every call after the
\* window call of the first pass is such a run
Rerun ==
    /\ mpc = "in_bkz"
    /\ block_size = NRows(basis)
    /\ ~(iter_count = 1 /\ bpc = "in_window")

\* C4: a run of lll on the basis an earlier lll returned performs no subtraction
\* and no swap, and returns the basis entrywise equal.
C4_Idempotent ==
    /\ [][(Rerun /\ LllRunning) => b' = b]_vars
    /\ [](Rerun /\ lpc = "returned" => b = basis)

C4_Witness ==
    /\ Rerun
    /\ lpc = "returned"
    /\ bpc = "in_full"
    /\ iter_count = 1
    /\ NRows(b) = 3
    /\ b = basis
    /\ RowsOf(basis) \cap RowsOf(input) = {}

RLt(p, q) == p[1] * q[2] < q[1] * p[2]

\* the squared norms of the vectors of a Gram-Schmidt system, in row order
NormSqs(bs) == [i \in DOMAIN bs |-> NormSq(bs[i])]

\* x is before y in the lexicographic order of sequences of rationals
RECURSIVE LexLess(_, _, _)
LexLess(x, y, i) ==
    /\ i < NRows(x)
    /\ \/ RLt(x[i], y[i])
       \/ x[i] = y[i] /\ LexLess(x, y, i + 1)

\* the position of lll inside one iteration of its outer loop
Rank(pc) == IF pc = "head" THEN 2 ELSE IF pc = "reduce" THEN 1 ELSE 0

\* the number of indices j the scan of the size reduction has still to clear
Pending(m, kk) == IF ReduceSet(m, kk) = {} THEN 0 ELSE FirstReduce(m, kk) + 1

\* a step of lll makes progress: a swap lowers the sequence of squared norms
\* S_0, S_1, ..., an advance raises k, a subtraction lowers the highest j left
\* to reduce, and the other steps move on inside the iteration
Progress ==
    \/ LexLess(NormSqs(b_star'), NormSqs(b_star), 0)
    \/ /\ NormSqs(b_star') = NormSqs(b_star)
       /\ \/ k' > k
          \/ k' = k /\ Rank(lpc') < Rank(lpc)
          \/ k' = k /\ lpc' = lpc /\ Pending(mu', k') < Pending(mu, k)

\* the subtraction the size reduction is about to make changes b
SubtractionChanges ==
    (lpc = "reduce" /\ ReduceSet(mu, k) # {}) =>
        ReduceRow(b, k, FirstReduce(mu, k), Numer(RRound(mu[k][FirstReduce(mu, k)]))) # b

\* C5: lll is total: no division by zero, k stays within 1..n, every step inside a
\* call makes progress in a well-founded order, so that the subtractions for each k
\* and the swaps are finitely many and the call returns; also on dependent rows.
C5_Total ==
    /\ [](lpc # "panic")
    /\ [](LllRunning => (1 <= k /\ k <= NRows(b) /\ SubtractionChanges))
    /\ [][(LllRunning /\ lpc' # "returned") => Progress]_vars

\* a returned lll on linearly dependent rows that needed subtractions and swaps
C5_Witness ==
    /\ lpc = "returned"
    /\ ret = "main"
    /\ NRows(b) = 3
    /\ input[0] = input[1]
    /\ b # input
    /\ RIsZero(NormSq(b_star[0]))

\* --bkz with a block size outside 2..n on a loaded basis of n >= 1 rows
BadBlockRun ==
    /\ algo = "bkz"
    /\ NRows(input) >= 1
    /\ (block_size < 2 \/ block_size > NRows(input))

\* C6: a bkz request whose block size is out of range runs no lll, window or full,
\* leaves the basis as loaded and prints no basis; it prints a diagnostic.
C6_ConfigError ==
    /\ [][BadBlockRun => (basis' = basis /\ stdout' = stdout /\ lpc' = "idle" /\ bpc' = "idle")]_vars
    /\ [](BadBlockRun /\ mpc = "done" => (stderr = 1 /\ stdout = <<>> /\ basis = input))

C6_Witness ==
    /\ BadBlockRun
    /\ mpc = "done"
    /\ stderr = 1
    /\ NRows(input) = 3
    /\ block_size = 1

\* C7: a run that ends with the block-size diagnostic has a non-zero exit status.
C7_NonZeroExit == (BadBlockRun /\ mpc = "done") => exit_code # 0

\* C8: bkz raises no error; it leaves the pass loop after the first pass that left
\* the basis equal to its snapshot or once the iteration cap 2 * n is reached, so
\* that it never executes more than 2 * n passes.
C8_PassLoop ==
    /\ mpc = "in_bkz" => lpc # "panic"
    /\ mpc = "in_bkz" => iter_count <= 2 * NRows(basis)
    /\ (bpc = "loop" /\ iter_count > 0) => basis # old_basis
    /\ bpc = "returned" => (basis = old_basis \/ iter_count = 2 * NRows(basis))

\* C9: the basis bkz returns is LLL-reduced over the whole basis.
C9_BkzReduced ==
    bpc = "returned" =>
        LET g == compute_gram_schmidt(basis)
        IN  SizeReducedUpTo(g, NRows(basis)) /\ LovaszUpTo(g, NRows(basis))

\* bkz left the pass loop on the iteration limit, after a pass that changed the basis
C9_Witness ==
    /\ bpc = "returned"
    /\ basis # old_basis
    /\ iter_count > MaxIters(NRows(basis))
    /\ b = basis

\* C10: at the head of the outer loop of lll, 1 <= k <= n, the rows before k are
\* LLL-reduced and b_star, mu are the Gram-Schmidt data of b; k moves by +1 or to
\* max(1, k-1).
C10_LoopInvariant ==
    /\ [](lpc = "head" =>
            LET g == compute_gram_schmidt(b)
            IN  /\ 1 <= k /\ k <= NRows(b)
                /\ b_star = g.b_star
                /\ mu = g.mu
                /\ SizeReducedUpTo(g, k)
                /\ LovaszUpTo(g, k))
    /\ [][(LllRunning /\ k' # k) =>
            \/ k' = k + 1 /\ b' = b
            \/ k' = Max(1, k - 1) /\ b' # b]_vars

\* the head is reached again at k = 1 after a swap at k = 2
C10_Witness ==
    /\ lpc = "head"
    /\ k = 1
    /\ NRows(b) = 3
    /\ ret = "main"
    /\ b[1] = input[2]
    /\ b[2] = input[1]
    /\ b[0] = input[0]
    /\ input[1] # input[2]

====
